---- MODULE Spec2Model ----
(***************************************************************************)
(* Transport layer of the BlogNow SDK: HttpClient (src/src/utils/http.ts)  *)
(* with its rate-limiter queue and ticker, the per-attempt timeout, the    *)
(* retry recursion of makeRequest / handleErrorResponse, and the error     *)
(* classifier createErrorFromResponse (src/src/types/common.ts).           *)
(*                                                                         *)
(* Time is an integer number of milliseconds.  Timers (the ticker, the     *)
(* timeout of an attempt, a backoff sleep) fire exactly at their deadline: *)
(* the clock cannot pass a pending deadline.  The network (fetch) settles  *)
(* whenever the environment decides.                                       *)
(***************************************************************************)
EXTENDS Integers, Sequences, FiniteSets, TLC

\* ---- bounds of the model ------------------------------------------------
NumCalls == 2          \* logical calls the caller issues
MaxTime == 4000        \* the clock stops here
MaxFetches == 3        \* fetch() invocations, all calls together
LastIssueTime == 0     \* calls are issued no later than this

Calls == 1..NumCalls

\* ---- program constants --------------------------------------------------
DefaultTimeout == 30000
DefaultRetries == 3
DefaultRate == 10
BackoffBase == 1000
BackoffCap == 10000

\* ---- inputs -------------------------------------------------------------
\* Configurations handed to the constructor; retries is given as 0, 1 or 2.
RetryInputs == {0, 1, 2}

\* JavaScript's undefined, where a number is expected
Undefined == -999

\* The customHeaders objects: the one the caller passes, and the {} the
\* constructor makes when the caller passes none.  NoRef is an absent field.
NoRef == 0
CallerRef == 1
FreshRef == 2
Refs == {CallerRef, FreshRef}
HeaderNames == {"X-Tenant", "X-Trace"}

ConfigInputs ==
    { [apiKey |-> "key", retries |-> r, timeout |-> 1000,
       rateLimitPerSecond |-> 1, customHeaders |-> NoRef] :
        r \in RetryInputs }

\* Configurations tried on the constructor of BlogNowClient: a credential
\* that is empty, blank or present; numbers that are absent, zero, negative
\* or positive; customHeaders absent or given.
ApiKeyInputs == {"", "  ", "key"}
TimeoutInputs == {Undefined, 0, -1, 5000}
RetriesInputs == {Undefined, 0, -1, 2}
RateInputs == {Undefined, 0, -1, 1000}
RawConfigs ==
    { [apiKey |-> k, retries |-> r, timeout |-> t,
       rateLimitPerSecond |-> l, customHeaders |-> h] :
        k \in ApiKeyInputs, r \in RetriesInputs, t \in TimeoutInputs,
        l \in RateInputs, h \in {NoRef, CallerRef} }

\* Inputs of the classifier: statuses, and the details object's two fields.
StatusInputs == 99 .. 600
DetailInputs ==
    { [retryAfter |-> a, retryAfterDash |-> b] :
        a \in {Undefined, 0, 60}, b \in {Undefined, 30} }

\* retry-after header of a response: absent, or the header's text.
NoHeader == "<absent>"
RetryAfterHeaders == {NoHeader, "0", "1"}

Statuses == {200, 404, 429, 500}

\* The body of a response: a JSON object without retry-after fields ("ok"),
\* a JSON object with a field retryAfter ("hint") or "retry-after"
\* ("hintDash") of value BodyHint, or text that is not JSON ("malformed").
BodyKinds == {"ok", "hint", "hintDash", "malformed"}
BodyHint == 30

\* What one fetch() can settle with, other than the abort by the timeout:
\* a response, a connectivity failure (a TypeError whose message contains
\* "fetch"), or some other exception.
Responses ==
    { [type |-> "response", status |-> s, retryAfter |-> h, body |-> "ok"] :
        s \in Statuses \ {429}, h \in {NoHeader} }
    \cup
    { [type |-> "response", status |-> 429, retryAfter |-> h, body |-> "ok"] :
        h \in RetryAfterHeaders }
NetFail == [type |-> "netfail", status |-> 0, retryAfter |-> NoHeader, body |-> "ok"]
OtherFail == [type |-> "other", status |-> 0, retryAfter |-> NoHeader, body |-> "ok"]
Aborted == [type |-> "abort", status |-> 0, retryAfter |-> NoHeader, body |-> "ok"]
Pending == [type |-> "pending", status |-> 0, retryAfter |-> NoHeader, body |-> "ok"]
Outcomes == Responses \cup {NetFail, OtherFail}

\* A wider choice of outcomes, for one call at a time: more statuses, the
\* bodies above on 2xx and 429 responses.
WideStatuses == {200, 401, 404, 418, 422, 429, 500, 501, 503}
WideResponses ==
    { [type |-> "response", status |-> s, retryAfter |-> NoHeader, body |-> "ok"] :
        s \in WideStatuses \ {429} }
    \cup
    { [type |-> "response", status |-> 200, retryAfter |-> NoHeader, body |-> "malformed"] }
    \cup
    { [type |-> "response", status |-> 429, retryAfter |-> h, body |-> b] :
        h \in RetryAfterHeaders, b \in BodyKinds }
WideOutcomes == WideResponses \cup {NetFail, OtherFail}

\* A second read of a response body that was already consumed: a lenient
\* Response (the test doubles of the repository) decodes the same body
\* again, a standard one rejects with a TypeError ("body already read").
RereadModes == {"stale", "throws"}

NoTime == -1

VARIABLES
    given,           \* the configuration object the caller passed
    client,          \* "none", "constructed", or "failed" (constructor threw)
    thrown,          \* what the facade last threw to the caller
    heap,            \* contents of the customHeaders objects, by reference
    snapshot,        \* what getConfig() last returned
    probe,           \* arguments of createErrorFromResponse
    classified,      \* its result
    args,            \* arguments of the helper function applied
    value,           \* what it returned
    gen,             \* a pagination generator of PostsService and its consumer
    stats,           \* one call of getPostStatistics
    config,          \* this.config
    now,             \* the clock, ms
    timerOn,         \* this.rateLimitTimer is running
    nextTick,        \* when the ticker fires next
    rateLimitQueue,  \* this.rateLimitQueue: waiters [call, seq]
    calls,           \* the logical calls: position, frames of makeRequest, result
    nextSeq,         \* arrival number of the next waiter
    released,        \* arrival numbers of the waiters released, in order
    ticks,           \* number of ticker callbacks run
    fetchCount       \* number of fetch() invocations

\* the facade's side: what the transport's operations leave alone
\* helper functions and PostsService: what client and transport leave alone
lib == <<args, value, gen, stats>>

aux == <<given, client, thrown, heap, snapshot, probe, classified, lib>>

vars == <<aux, config, now, timerOn, nextTick, rateLimitQueue, calls, nextSeq,
          released, ticks, fetchCount>>

\* ---- pure helpers -------------------------------------------------------
Min(a, b) == IF a <= b THEN a ELSE b

RECURSIVE Pow2(_)
Pow2(n) == IF n <= 0 THEN 1 ELSE 2 * Pow2(n - 1)

\* JavaScript `x || d` on numbers.
OrDefault(x, d) == IF x = 0 \/ x = Undefined THEN d ELSE x

\* constructor: this.config = {...}
HttpClientConfig(cfg) ==
    [apiKey |-> cfg.apiKey,
     retries |-> OrDefault(cfg.retries, DefaultRetries),
     timeout |-> OrDefault(cfg.timeout, DefaultTimeout),
     rateLimitPerSecond |-> OrDefault(cfg.rateLimitPerSecond, DefaultRate),
     customHeaders |-> IF cfg.customHeaders = NoRef THEN FreshRef
                       ELSE cfg.customHeaders]

\* setupRateLimit: const interval = 1000 / rateLimitPerSecond
Interval == 1000 \div config.rateLimitPerSecond

\* mutant: the exponent is the attempt itself
Backoff_lateExponent(attempt) == Min(BackoffBase * Pow2(attempt), BackoffCap)

\* Math.min(1000 * Math.pow(2, attempt - 1), 10000)
Backoff(attempt) == Min(BackoffBase * Pow2(attempt - 1), BackoffCap)

\* mutant: one retry too many
AttemptsRemain_offByOne(attempt) == attempt <= config.retries + 1

\* mutant: the attempts of all calls of the client are counted together
AttemptsRemain_shared(attempt) == fetchCount <= config.retries

\* attempt <= this.config.retries
AttemptsRemain(attempt) == attempt <= config.retries

\* truthiness of response.headers.get("retry-after")
HeaderTruthy(h) == h # NoHeader /\ h # ""

\* parseInt(retryAfter); NaN is -1
NaN == -1
ParseInt(h) ==
    CASE h = "0" -> 0
      [] h = "1" -> 1
      [] h = "2" -> 2
      [] OTHER -> NaN

\* setTimeout(resolve, delay): a NaN delay is run as 0
TimerDelay(d) == IF d = NaN THEN 0 ELSE d

\* ---- results ------------------------------------------------------------
\* What a makeRequest frame ends with: a returned value or a thrown error.
\* Value(k) is the decoded body of the response received by attempt k.
\* msg is the part of an exception's message the code looks at.
\* details is the name of the exception an error wraps, if any.
\* retryAfter is the field of that name of a RateLimitError.
NoResult ==
    [kind |-> "none", name |-> "", code |-> "", status |-> 0, from |-> 0,
     msg |-> "", details |-> "", retryAfter |-> Undefined]
Value(k) ==
    [kind |-> "value", name |-> "", code |-> "", status |-> 0, from |-> k,
     msg |-> "", details |-> "", retryAfter |-> Undefined]
Err(n, c, s, k, m) ==
    [kind |-> "error", name |-> n, code |-> c, status |-> s, from |-> k,
     msg |-> m, details |-> "", retryAfter |-> Undefined]

\* errorData of handleErrorResponse: the decoded body of the response, of
\* which the classifier reads the fields retryAfter and "retry-after"; null
\* when decoding threw (both fields read as undefined through `?.`).
NullData == [retryAfter |-> Undefined, retryAfterDash |-> Undefined]
ErrorData(resp) ==
    IF resp.body = "malformed"
    THEN NullData
    ELSE [retryAfter |-> IF resp.body = "hint" THEN BodyHint ELSE Undefined,
          retryAfterDash |-> IF resp.body = "hintDash" THEN BodyHint ELSE Undefined]

\* mutant: every status from 500 up is a ServerError
createErrorFromResponse_all5xx(status, details, k) ==
    CASE status = 401 -> Err("APIKeyError", "INVALID_API_KEY", 401, k, "")
      [] status = 404 -> Err("NotFoundError", "NOT_FOUND", 404, k, "")
      [] status = 422 -> Err("ValidationError", "VALIDATION_ERROR", 422, k, "")
      [] status = 429 ->
           [Err("RateLimitError", "RATE_LIMIT_EXCEEDED", 429, k, "")
               EXCEPT !.retryAfter = OrDefault(details.retryAfter, details.retryAfterDash)]
      [] status >= 500 -> Err("ServerError", "SERVER_ERROR", status, k, "")
      [] OTHER -> Err("BlogNowError", "HTTP_ERROR", status, k, "")

\* createErrorFromResponse(status, message, details), for the response of attempt k
createErrorFromResponse(status, details, k) ==
    CASE status = 401 -> Err("APIKeyError", "INVALID_API_KEY", 401, k, "")
      [] status = 404 -> Err("NotFoundError", "NOT_FOUND", 404, k, "")
      [] status = 422 -> Err("ValidationError", "VALIDATION_ERROR", 422, k, "")
      [] status = 429 ->
           [Err("RateLimitError", "RATE_LIMIT_EXCEEDED", 429, k, "")
               EXCEPT !.retryAfter = OrDefault(details.retryAfter, details.retryAfterDash)]
      [] status \in {500, 502, 503, 504} -> Err("ServerError", "SERVER_ERROR", status, k, "")
      [] OTHER -> Err("BlogNowError", "HTTP_ERROR", status, k, "")

\* new TimeoutError(...), new NetworkError("Network request failed", error)
TimeoutError(k) == Err("TimeoutError", "TIMEOUT", 0, k, "")
NetworkError(k, e) ==
    [Err("NetworkError", "NETWORK_ERROR", 0, k, "Network request failed")
        EXCEPT !.details = e.name]

\* exceptions that are not BlogNowError
AbortError(k) == Err("AbortError", "", 0, k, "aborted")
FetchTypeError(k) == Err("TypeError", "", 0, k, "fetch")
BodyUsedError(k) == Err("TypeError", "", 0, k, "body already read")
OtherError(k) == Err("Error", "", 0, k, "other")
\* response.json() on a body that is not JSON
SyntaxError(k) == Err("SyntaxError", "", 0, k, "not JSON")

TypedNames == {"TimeoutError", "NetworkError", "APIKeyError", "NotFoundError",
               "ValidationError", "RateLimitError", "ServerError", "BlogNowError"}

\* What a frame does next: throw/return res, or sleep and call makeRequest
\* again (via: from handleErrorResponse inside the try, or from the catch).
Done(res) == [do |-> "done", res |-> res, delay |-> 0, via |-> ""]
Retry(d, v) == [do |-> "retry", res |-> NoResult, delay |-> d, via |-> v]

\* mutant: the last permitted retry after a connectivity failure is not made
CatchBlock_fewerRetries(e, attempt) ==
    IF e.name = "AbortError"
    THEN Done(TimeoutError(attempt))
    ELSE IF e.name = "TypeError" /\ e.msg = "fetch"
         THEN IF attempt < config.retries
              THEN Retry(Backoff(attempt), "catch")
              ELSE Done(NetworkError(attempt, e))
         ELSE Done(e)

\* mutant: an aborted attempt is retried like a connectivity failure
CatchBlock_retryAbort(e, attempt) ==
    IF e.name = "AbortError" \/ (e.name = "TypeError" /\ e.msg = "fetch")
    THEN IF AttemptsRemain(attempt)
         THEN Retry(Backoff(attempt), "catch")
         ELSE IF e.name = "AbortError"
              THEN Done(TimeoutError(attempt))
              ELSE Done(NetworkError(attempt, e))
    ELSE Done(e)

\* The catch block of makeRequest, for exception e caught by the frame of
\* this attempt.
CatchBlock(e, attempt) ==
    IF e.name = "AbortError"
    THEN Done(TimeoutError(attempt))
    ELSE IF e.name = "TypeError" /\ e.msg = "fetch"
         THEN IF AttemptsRemain(attempt)
              THEN Retry(Backoff(attempt), "catch")
              ELSE Done(NetworkError(attempt, e))
         ELSE Done(e)

\* mutant: client errors are retried like server errors
handleErrorResponse_retry4xx(resp, attempt) ==
    IF resp.status = 429 /\ HeaderTruthy(resp.retryAfter) /\ AttemptsRemain(attempt)
    THEN Retry(TimerDelay(ParseInt(resp.retryAfter) * 1000), "her")
    ELSE IF resp.status >= 400 /\ AttemptsRemain(attempt)
         THEN Retry(Backoff(attempt), "her")
         ELSE CatchBlock(createErrorFromResponse(resp.status, ErrorData(resp), attempt),
                         attempt)

\* handleErrorResponse(response, options, attempt) up to its first sleep or
\* its throw; what it throws is caught by the catch block of the frame that
\* awaits it.
handleErrorResponse(resp, attempt) ==
    IF resp.status = 429 /\ HeaderTruthy(resp.retryAfter) /\ AttemptsRemain(attempt)
    THEN Retry(TimerDelay(ParseInt(resp.retryAfter) * 1000), "her")
    ELSE IF resp.status >= 500 /\ AttemptsRemain(attempt)
         THEN Retry(Backoff(attempt), "her")
         ELSE CatchBlock(createErrorFromResponse(resp.status, ErrorData(resp), attempt),
                         attempt)

\* response.ok
Ok(resp) == resp.status >= 200 /\ resp.status <= 299

\* makeRequest after fetch settled with outcome o (a response or a rejection)
AfterFetch(o, attempt) ==
    IF o.type = "response"
    THEN IF Ok(o)
         THEN IF o.body = "malformed"
              THEN CatchBlock(SyntaxError(attempt), attempt)
              ELSE Done(Value(attempt))
         ELSE handleErrorResponse(o, attempt)
    ELSE IF o.type = "netfail" THEN CatchBlock(FetchTypeError(attempt), attempt)
    ELSE IF o.type = "abort" THEN CatchBlock(AbortError(attempt), attempt)
    ELSE CatchBlock(OtherError(attempt), attempt)

\* Lines 123-129 run by a frame whose `await this.handleErrorResponse(...)`
\* returned normally (the recursive call it made returned a value): the
\* body of this frame's own (non-2xx) response is read a second time.
AfterHandlerReturned(attempt, mode) ==
    IF mode = "stale"
    THEN Done(Value(attempt))
    ELSE CatchBlock(BodyUsedError(attempt), attempt)

\* Frame i of the call has just ended with res: the frames that await it
\* run, outwards, until one of them sleeps for a retry or the outermost ends.
RECURSIVE Unwind(_, _, _, _)
Unwind(frames, i, res, mode) ==
    IF frames[i].parent = 0
    THEN [do |-> "done", res |-> res, at |-> i, delay |-> 0, via |-> ""]
    ELSE LET p == frames[i].parent
             step == IF frames[i].via = "catch"
                     THEN Done(res)
                     ELSE IF res.kind = "error"
                          THEN CatchBlock(res, frames[p].attempt)
                          ELSE AfterHandlerReturned(frames[p].attempt, mode)
         IN IF step.do = "retry"
            THEN [do |-> "retry", res |-> NoResult, at |-> p,
                  delay |-> step.delay, via |-> step.via]
            ELSE Unwind(frames, p, step.res, mode)

\* Frame i settles its fetch with outcome o.
Settled(frames, i, o, mode) ==
    LET step == AfterFetch(o, frames[i].attempt)
    IN IF step.do = "retry"
       THEN [do |-> "retry", res |-> NoResult, at |-> i,
             delay |-> step.delay, via |-> step.via]
       ELSE Unwind(frames, i, step.res, mode)

\* ---- state --------------------------------------------------------------
NewFrame(attempt, parent, via) ==
    [attempt |-> attempt, parent |-> parent, via |-> via,
     startedAt |-> NoTime, settledAt |-> NoTime, outcome |-> Pending,
     delay |-> NoTime]

\* A logical call.  frames, issuedAt, elapsed and attemptElapsed are the
\* observer's record of it; the clock readings of the frames are kept while
\* the call runs and dropped when it completes.  What stays is elapsed, the
\* time from the issue of the call to its completion, and attemptElapsed, the
\* time from the start of its last fetch to its completion.
IdleCall ==
    [pc |-> "idle", frames |-> <<>>, wake |-> NoTime, timeoutAt |-> NoTime,
     spawn |-> [parent |-> 0, via |-> ""], result |-> NoResult,
     issuedAt |-> NoTime, elapsed |-> NoTime, attemptElapsed |-> NoTime]

Forget(frames) ==
    [i \in DOMAIN frames |-> [frames[i] EXCEPT !.startedAt = 0, !.settledAt = 0]]

NoSnapshot ==
    [apiKey |-> "", retries |-> Undefined, timeout |-> Undefined,
     rateLimitPerSecond |-> Undefined, customHeaders |-> NoRef]
NoProbe == [status |-> 0, details |-> NullData]

\* args, value, gen or stats when no helper has been applied, no generator
\* made, no statistics asked for
Unset == <<>>
LibIdle ==
    /\ args = Unset
    /\ value = Unset
    /\ gen = Unset
    /\ stats = Unset

\* A constructed client that has made no call yet.
Init ==
    /\ given \in ConfigInputs
    /\ client = "constructed"
    /\ thrown = NoResult
    /\ heap = [r \in Refs |-> {}]
    /\ snapshot = NoSnapshot
    /\ probe = NoProbe
    /\ classified = NoResult
    /\ LibIdle
    /\ config = HttpClientConfig(given)
    /\ now = 0
    /\ timerOn = TRUE
    /\ nextTick = 1000 \div config.rateLimitPerSecond
    /\ rateLimitQueue = <<>>
    /\ calls = [c \in Calls |-> IdleCall]
    /\ nextSeq = 1
    /\ released = <<>>
    /\ ticks = 0
    /\ fetchCount = 0

\* mutant: the waiter is put at the front of the queue
waitForRateLimit_front(c) == <<[call |-> c, seq |-> nextSeq]>> \o rateLimitQueue

\* waitForRateLimit: this.rateLimitQueue.push(resolve)
waitForRateLimit(c) == Append(rateLimitQueue, [call |-> c, seq |-> nextSeq])

\* mutant: a call on an empty queue calls fetch at once
Issue_sync(c) ==
    /\ calls[c].pc = "idle"
    /\ \A d \in Calls : d < c => calls[d].pc # "idle"
    /\ now <= LastIssueTime
    /\ IF rateLimitQueue = <<>> /\ fetchCount < MaxFetches
       THEN /\ calls' = [calls EXCEPT ![c] =
                           [@ EXCEPT !.pc = "fetching",
                                     !.frames = <<[NewFrame(1, 0, "top")
                                                     EXCEPT !.startedAt = now]>>,
                                     !.timeoutAt = now + config.timeout,
                                     !.issuedAt = now]]
            /\ fetchCount' = fetchCount + 1
            /\ UNCHANGED <<rateLimitQueue, nextSeq>>
       ELSE /\ rateLimitQueue' = waitForRateLimit(c)
            /\ nextSeq' = nextSeq + 1
            /\ calls' = [calls EXCEPT ![c] =
                           [@ EXCEPT !.pc = "waiting",
                                     !.frames = <<NewFrame(1, 0, "top")>>,
                                     !.issuedAt = now]]
            /\ UNCHANGED fetchCount
    /\ UNCHANGED <<aux, config, now, timerOn, nextTick, released, ticks>>

\* get/post/put/patch/delete: makeRequest(options) with attempt = 1, up to
\* its first await.
Issue(c) ==
    /\ calls[c].pc = "idle"
    /\ \A d \in Calls : d < c => calls[d].pc # "idle"
    /\ now <= LastIssueTime
    /\ rateLimitQueue' = waitForRateLimit(c)
    /\ nextSeq' = nextSeq + 1
    /\ calls' = [calls EXCEPT ![c] =
                   [@ EXCEPT !.pc = "waiting",
                             !.frames = <<NewFrame(1, 0, "top")>>,
                             !.issuedAt = now]]
    /\ UNCHANGED <<aux, config, now, timerOn, nextTick, released, ticks, fetchCount>>

\* mutant: a tick resolves every queued waiter
Batch_drain(q) == q

\* The waiters one run of the setInterval callback resolves:
\* const next = this.rateLimitQueue.shift(); if (next) next();
Batch(q) == IF q = <<>> THEN <<>> ELSE <<Head(q)>>

\* mutant: the timer is armed with twice the configured duration
TimeoutDeadline_double(start) == start + 2 * config.timeout

\* const timeoutId = setTimeout(() => controller.abort(), this.config.timeout)
TimeoutDeadline(start) == start + config.timeout

\* makeRequest from line 88 to `await fetch(...)`, run by a call whose
\* waiter was resolved.
StartFetch(call) ==
    [call EXCEPT !.pc = "fetching",
                 !.frames[Len(call.frames)].startedAt = now,
                 !.timeoutAt = TimeoutDeadline(now)]

\* mutant: the ticker goes on firing after destroy()
Tick_ignoresDestroy ==
    /\ now = nextTick
    /\ LET batch == Batch(rateLimitQueue)
           who == { batch[i].call : i \in DOMAIN batch }
       IN /\ fetchCount + Len(batch) <= MaxFetches
          /\ rateLimitQueue' = SubSeq(rateLimitQueue, Len(batch) + 1, Len(rateLimitQueue))
          /\ released' = released \o batch
          /\ fetchCount' = fetchCount + Len(batch)
          /\ calls' = [c \in Calls |->
                         IF c \in who THEN StartFetch(calls[c]) ELSE calls[c]]
    /\ ticks' = ticks + 1
    /\ nextTick' = now + Interval
    /\ UNCHANGED <<aux, config, now, timerOn, nextSeq>>

\* The setInterval callback of setupRateLimit, and the continuations of the
\* waiters it resolves.
Tick ==
    /\ timerOn
    /\ now = nextTick
    /\ LET batch == Batch(rateLimitQueue)
           who == { batch[i].call : i \in DOMAIN batch }
       IN /\ fetchCount + Len(batch) <= MaxFetches
          /\ rateLimitQueue' = SubSeq(rateLimitQueue, Len(batch) + 1, Len(rateLimitQueue))
          /\ released' = released \o batch
          /\ fetchCount' = fetchCount + Len(batch)
          /\ calls' = [c \in Calls |->
                         IF c \in who THEN StartFetch(calls[c]) ELSE calls[c]]
    /\ ticks' = ticks + 1
    /\ nextTick' = now + Interval
    /\ UNCHANGED <<aux, config, now, timerOn, nextSeq>>

\* mutant: the timeout timer is not cleared when the fetch settles
Continue_keepsTimer(c, o, mode) ==
    LET n == Len(calls[c].frames)
        fs == [calls[c].frames EXCEPT ![n].outcome = o, ![n].settledAt = now]
        u == Settled(fs, n, o, mode)
    IN calls' = [calls EXCEPT ![c] =
         IF u.do = "retry"
         THEN [@ EXCEPT !.pc = "sleeping",
                        !.frames = [fs EXCEPT ![u.at].delay = u.delay],
                        !.wake = now + u.delay,
                        !.spawn = [parent |-> u.at, via |-> u.via]]
         ELSE [@ EXCEPT !.pc = "done",
                        !.frames = Forget(fs),
                        !.result = u.res,
                        !.issuedAt = 0,
                        !.elapsed = now - calls[c].issuedAt,
                        !.attemptElapsed = now - calls[c].frames[n].startedAt]]

\* The call goes on after the fetch of its innermost frame settled with o
\* (clearTimeout has run): it completes, or sleeps before a retry.
Continue(c, o, mode) ==
    LET n == Len(calls[c].frames)
        fs == [calls[c].frames EXCEPT ![n].outcome = o, ![n].settledAt = now]
        u == Settled(fs, n, o, mode)
    IN calls' = [calls EXCEPT ![c] =
         IF u.do = "retry"
         THEN [@ EXCEPT !.pc = "sleeping",
                        !.frames = [fs EXCEPT ![u.at].delay = u.delay],
                        !.timeoutAt = NoTime,
                        !.wake = now + u.delay,
                        !.spawn = [parent |-> u.at, via |-> u.via]]
         ELSE [@ EXCEPT !.pc = "done",
                        !.frames = Forget(fs),
                        !.timeoutAt = NoTime,
                        !.result = u.res,
                        !.issuedAt = 0,
                        !.elapsed = now - calls[c].issuedAt,
                        !.attemptElapsed = now - calls[c].frames[n].startedAt]]

\* fetch() settles: a response arrives or the transport fails.
FetchSettles(c) ==
    /\ calls[c].pc = "fetching"
    /\ \E o \in Outcomes : \E mode \in RereadModes : Continue(c, o, mode)
    /\ UNCHANGED <<aux, config, now, timerOn, nextTick, rateLimitQueue, nextSeq,
                   released, ticks, fetchCount>>

\* The same with the wider choice of outcomes.
FetchSettlesWide(c) ==
    /\ calls[c].pc = "fetching"
    /\ \E o \in WideOutcomes : \E mode \in RereadModes : Continue(c, o, mode)
    /\ UNCHANGED <<aux, config, now, timerOn, nextTick, rateLimitQueue, nextSeq,
                   released, ticks, fetchCount>>

\* The timeout timer of the attempt fires: controller.abort(), fetch rejects
\* with an AbortError.
TimeoutFires(c) ==
    /\ calls[c].pc = "fetching"
    /\ calls[c].timeoutAt = now
    /\ \E mode \in RereadModes : Continue(c, Aborted, mode)
    /\ UNCHANGED <<aux, config, now, timerOn, nextTick, rateLimitQueue, nextSeq,
                   released, ticks, fetchCount>>

\* mutant: a retry calls fetch without waiting for the rate limiter
SleepEnds_direct(c) ==
    /\ calls[c].pc = "sleeping"
    /\ calls[c].wake = now
    /\ LET p == calls[c].spawn.parent
           f == NewFrame(calls[c].frames[p].attempt + 1, p, calls[c].spawn.via)
       IN calls' = [calls EXCEPT ![c] =
             StartFetch([@ EXCEPT !.frames = Append(@, f), !.wake = NoTime])]
    /\ fetchCount' = fetchCount + 1
    /\ UNCHANGED <<aux, config, now, timerOn, nextTick, rateLimitQueue, nextSeq,
                   released, ticks>>

\* mutant: the waiter of a retry goes to the front of the queue
SleepEnds_priority(c) ==
    /\ calls[c].pc = "sleeping"
    /\ calls[c].wake = now
    /\ LET p == calls[c].spawn.parent
           f == NewFrame(calls[c].frames[p].attempt + 1, p, calls[c].spawn.via)
       IN calls' = [calls EXCEPT ![c] =
             [@ EXCEPT !.pc = "waiting",
                       !.frames = Append(@, f),
                       !.wake = NoTime]]
    /\ rateLimitQueue' = <<[call |-> c, seq |-> nextSeq]>> \o rateLimitQueue
    /\ nextSeq' = nextSeq + 1
    /\ UNCHANGED <<aux, config, now, timerOn, nextTick, released, ticks, fetchCount>>

\* The sleep before a retry ends: makeRequest(options, attempt + 1) up to
\* its first await.
SleepEnds(c) ==
    /\ calls[c].pc = "sleeping"
    /\ calls[c].wake = now
    /\ LET p == calls[c].spawn.parent
           f == NewFrame(calls[c].frames[p].attempt + 1, p, calls[c].spawn.via)
       IN calls' = [calls EXCEPT ![c] =
             [@ EXCEPT !.pc = "waiting",
                       !.frames = Append(@, f),
                       !.wake = NoTime]]
    /\ rateLimitQueue' = waitForRateLimit(c)
    /\ nextSeq' = nextSeq + 1
    /\ UNCHANGED <<aux, config, now, timerOn, nextTick, released, ticks, fetchCount>>

\* mutant: destroy() on a stopped ticker starts it again
destroy_restarts(on, queue) == [timerOn |-> ~on, rateLimitQueue |-> <<>>]

\* destroy() as a function of the two fields it touches: clearInterval of
\* the ticker (a no-op on one already cleared), rateLimitQueue.length = 0
destroy(on, queue) == [timerOn |-> FALSE, rateLimitQueue |-> <<>>]

\* mutant: destroy() resolves the waiters it removes
Destroy_releases ==
    /\ timerOn' = destroy(timerOn, rateLimitQueue).timerOn
    /\ rateLimitQueue' = <<>>
    /\ fetchCount' = fetchCount + Len(rateLimitQueue)
    /\ calls' = [c \in Calls |->
                   IF \E i \in DOMAIN rateLimitQueue : rateLimitQueue[i].call = c
                   THEN StartFetch(calls[c]) ELSE calls[c]]
    /\ UNCHANGED <<aux, config, now, nextTick, nextSeq, released, ticks>>

\* destroy()
Destroy ==
    /\ timerOn' = destroy(timerOn, rateLimitQueue).timerOn
    /\ rateLimitQueue' = destroy(timerOn, rateLimitQueue).rateLimitQueue
    /\ UNCHANGED <<aux, config, now, nextTick, calls, nextSeq, released, ticks,
                   fetchCount>>

\* ---- time ---------------------------------------------------------------
Deadlines ==
    (IF timerOn THEN {nextTick} ELSE {})
    \cup { calls[c].wake : c \in {d \in Calls : calls[d].pc = "sleeping"} }
    \cup { calls[c].timeoutAt : c \in {d \in Calls : calls[d].pc = "fetching"} }

\* A call that is under way or can still be issued.
Unfinished(c) ==
    \/ calls[c].pc \in {"waiting", "fetching", "sleeping"}
    \/ calls[c].pc = "idle" /\ now <= LastIssueTime

\* The clock moves to the next deadline; it never passes one.  It is not
\* followed further once every call has completed.
Advance ==
    /\ \E c \in Calls : Unfinished(c)
    /\ Deadlines # {}
    /\ \A d \in Deadlines : d > now
    /\ \E d \in Deadlines :
         /\ \A e \in Deadlines : d <= e
         /\ d <= MaxTime
         /\ now' = d
    /\ UNCHANGED <<aux, config, timerOn, nextTick, rateLimitQueue, calls, nextSeq,
                   released, ticks, fetchCount>>

Next ==
    \/ \E c \in Calls : Issue(c)
    \/ Tick
    \/ \E c \in Calls : FetchSettles(c)
    \/ \E c \in Calls : TimeoutFires(c)
    \/ \E c \in Calls : SleepEnds(c)
    \/ Destroy
    \/ Advance

Spec == Init /\ [][Next]_vars

\* One call, with the wider choice of outcomes.
NextWide ==
    \/ Issue(1)
    \/ Tick
    \/ FetchSettlesWide(1)
    \/ TimeoutFires(1)
    \/ SleepEnds(1)
    \/ Destroy
    \/ Advance

SpecWide == Init /\ [][NextWide]_vars

\* ---- a client that is never destroyed ------------------------------------
\* Every fetch ends in a response, a connectivity failure or the abort by
\* the timeout.
LiveOutcomes == Responses \cup {NetFail}

FetchSettlesLive(c) ==
    /\ calls[c].pc = "fetching"
    /\ \E o \in LiveOutcomes : \E mode \in RereadModes : Continue(c, o, mode)
    /\ UNCHANGED <<aux, config, now, timerOn, nextTick, rateLimitQueue, nextSeq,
                   released, ticks, fetchCount>>

NextLive ==
    \/ \E c \in Calls : Issue(c)
    \/ Tick
    \/ \E c \in Calls : FetchSettlesLive(c)
    \/ \E c \in Calls : TimeoutFires(c)
    \/ \E c \in Calls : SleepEnds(c)
    \/ Advance

\* The event loop runs every callback that is due: the ticker's, a timer's,
\* the continuation of a settled fetch; and time passes.
Fairness ==
    /\ WF_vars(Tick)
    /\ WF_vars(Advance)
    /\ \A c \in Calls :
         /\ WF_vars(FetchSettlesLive(c))
         /\ WF_vars(TimeoutFires(c))
         /\ WF_vars(SleepEnds(c))

SpecLive == Init /\ [][NextLive]_vars /\ Fairness

\* The exploration has reached its limits: the ticker may start no further
\* fetch, or the next deadline is beyond the last instant followed.
OutOfBounds ==
    \/ fetchCount + Len(Batch(rateLimitQueue)) > MaxFetches
    \/ Deadlines # {} /\ \A d \in Deadlines : d > MaxTime

\* ---- the facade: construction and getConfig ------------------------------
\* String.prototype.trim on the credentials tried
Trim(str) == IF str \in {"", " ", "  "} THEN "" ELSE str

\* truthiness of a number that may be undefined
Truthy(x) == x # 0 /\ x # Undefined

\* validateConfig(config): the message of the ConfigurationError it throws,
\* "" when it returns.
validateConfig(cfg) ==
    IF cfg.apiKey = "" THEN "API key is required"
    ELSE IF Trim(cfg.apiKey) = "" THEN "API key must be a non-empty string"
    ELSE IF Truthy(cfg.timeout) /\ cfg.timeout <= 0
         THEN "Timeout must be a positive number"
    ELSE IF Truthy(cfg.retries) /\ cfg.retries < 0
         THEN "Retries must be a non-negative number"
    ELSE IF Truthy(cfg.rateLimitPerSecond) /\ cfg.rateLimitPerSecond <= 0
         THEN "Rate limit must be a positive number"
    ELSE ""

ConfigurationError(m) == Err("ConfigurationError", "CONFIGURATION_ERROR", 0, 0, m)
\* assignment to a property of a frozen object, in strict mode
FrozenWriteError == Err("TypeError", "", 0, 0, "read only")

\* No call has been made and nothing is scheduled.
TransportIdle ==
    /\ now = 0
    /\ rateLimitQueue = <<>>
    /\ calls = [c \in Calls |-> IdleCall]
    /\ nextSeq = 1
    /\ released = <<>>
    /\ ticks = 0
    /\ fetchCount = 0

\* Before `new BlogNowClient(given)`.
InitConstruct ==
    /\ given \in RawConfigs
    /\ client = "none"
    /\ thrown = NoResult
    /\ heap = [r \in Refs |-> {}]
    /\ snapshot = NoSnapshot
    /\ probe = NoProbe
    /\ classified = NoResult
    /\ LibIdle
    /\ config = NoSnapshot
    /\ timerOn = FALSE
    /\ nextTick = 0
    /\ TransportIdle

\* mutant: the ticker is started before the configuration is validated
Construct_tickerFirst ==
    /\ client = "none"
    /\ IF validateConfig(given) # ""
       THEN /\ client' = "failed"
            /\ thrown' = ConfigurationError(validateConfig(given))
            /\ timerOn' = TRUE
            /\ UNCHANGED <<config, nextTick>>
       ELSE /\ client' = "constructed"
            /\ config' = HttpClientConfig(given)
            /\ timerOn' = TRUE
            /\ nextTick' = now + 1000 \div HttpClientConfig(given).rateLimitPerSecond
            /\ UNCHANGED thrown
    /\ UNCHANGED <<lib, given, heap, snapshot, probe, classified, now, rateLimitQueue,
                   calls, nextSeq, released, ticks, fetchCount>>

\* new BlogNowClient(given): validateConfig, then new HttpClient(given),
\* whose constructor fills this.config and starts the ticker.
Construct ==
    /\ client = "none"
    /\ IF validateConfig(given) # ""
       THEN /\ client' = "failed"
            /\ thrown' = ConfigurationError(validateConfig(given))
            /\ UNCHANGED <<config, timerOn, nextTick>>
       ELSE /\ client' = "constructed"
            /\ config' = HttpClientConfig(given)
            /\ timerOn' = TRUE
            /\ nextTick' = now + 1000 \div HttpClientConfig(given).rateLimitPerSecond
            /\ UNCHANGED thrown
    /\ UNCHANGED <<lib, given, heap, snapshot, probe, classified, now, rateLimitQueue,
                   calls, nextSeq, released, ticks, fetchCount>>

\* getConfig(): Object.freeze({ ...this.http.config }), a copy one level deep
GetConfig ==
    /\ client = "constructed"
    /\ snapshot' = config
    /\ UNCHANGED <<lib, given, client, thrown, heap, probe, classified, config, now,
                   timerOn, nextTick, rateLimitQueue, calls, nextSeq, released,
                   ticks, fetchCount>>

\* The caller assigns to a field of the object it passed to the constructor.
CallerSetsField ==
    /\ client = "constructed"
    /\ \E v \in RetriesInputs : given' = [given EXCEPT !.retries = v]
    /\ UNCHANGED <<lib, client, thrown, heap, snapshot, probe, classified, config, now,
                   timerOn, nextTick, rateLimitQueue, calls, nextSeq, released,
                   ticks, fetchCount>>

\* The caller assigns to a field of the object getConfig() returned.
CallerWritesSnapshot ==
    /\ snapshot # NoSnapshot
    /\ thrown' = FrozenWriteError
    /\ UNCHANGED <<lib, given, client, heap, snapshot, probe, classified, config, now,
                   timerOn, nextTick, rateLimitQueue, calls, nextSeq, released,
                   ticks, fetchCount>>

\* The customHeaders objects the caller can reach: the one it passed, and
\* the one in the object getConfig() returned.
HeldRefs == {given.customHeaders, snapshot.customHeaders} \ {NoRef}

\* The caller sets a header in a customHeaders object it can reach.
CallerSetsHeader(r) ==
    /\ client = "constructed"
    /\ r \in HeldRefs
    /\ \E h \in HeaderNames : heap' = [heap EXCEPT ![r] = @ \cup {h}]
    /\ UNCHANGED <<lib, given, client, thrown, snapshot, probe, classified, config, now,
                   timerOn, nextTick, rateLimitQueue, calls, nextSeq, released,
                   ticks, fetchCount>>

\* getHeaders(): the names of the headers a request is sent with
getHeaders ==
    {"Content-Type", "Authorization", "User-Agent"} \cup heap[config.customHeaders]

NextConstruct ==
    \/ Construct
    \/ GetConfig
    \/ CallerSetsField
    \/ CallerWritesSnapshot
    \/ \E r \in Refs : CallerSetsHeader(r)

SpecConstruct == InitConstruct /\ [][NextConstruct]_vars

\* Before `new BlogNowClient(given)`, with a configuration the constructor
\* rejects or one of those the calls are made with.
InitClient ==
    /\ given \in ConfigInputs \cup {g \in RawConfigs : validateConfig(g) # ""}
    /\ client = "none"
    /\ thrown = NoResult
    /\ heap = [r \in Refs |-> {}]
    /\ snapshot = NoSnapshot
    /\ probe = NoProbe
    /\ classified = NoResult
    /\ LibIdle
    /\ config = NoSnapshot
    /\ timerOn = FALSE
    /\ nextTick = 0
    /\ TransportIdle

\* The client from its construction on: the calls of one caller are made
\* through the object the constructor returned, when it returned one.
SpecClient ==
    InitClient /\ [][Construct \/ (client = "constructed" /\ NextWide)]_vars

\* ---- the classifier on its own ------------------------------------------
InitClassify ==
    /\ given \in ConfigInputs
    /\ client = "constructed"
    /\ thrown = NoResult
    /\ heap = [r \in Refs |-> {}]
    /\ snapshot = NoSnapshot
    /\ probe \in { [status |-> st, details |-> d] :
                     st \in StatusInputs, d \in DetailInputs }
    /\ classified = NoResult
    /\ LibIdle
    /\ config = HttpClientConfig(given)
    /\ timerOn = TRUE
    /\ nextTick = 1000 \div config.rateLimitPerSecond
    /\ TransportIdle

\* createErrorFromResponse(status, message, details)
Classify ==
    /\ classified = NoResult
    /\ classified' = createErrorFromResponse(probe.status, probe.details, 0)
    /\ UNCHANGED <<lib, given, client, thrown, heap, snapshot, probe, config, now,
                   timerOn, nextTick, rateLimitQueue, calls, nextSeq, released,
                   ticks, fetchCount>>

NextClassify == Classify

SpecClassify == InitClassify /\ [][NextClassify]_vars

\* ---- helper functions and PostsService, each on its own ------------------
\* the variables of the client and of the transport
facade == <<given, client, thrown, heap, snapshot, probe, classified>>
transport == <<config, now, timerOn, nextTick, rateLimitQueue, calls, nextSeq,
               released, ticks, fetchCount>>

\* A constructed client that has made no call.
ClientReady ==
    /\ given \in ConfigInputs
    /\ client = "constructed"
    /\ thrown = NoResult
    /\ heap = [r \in Refs |-> {}]
    /\ snapshot = NoSnapshot
    /\ probe = NoProbe
    /\ classified = NoResult
    /\ config = HttpClientConfig(given)
    /\ timerOn = TRUE
    /\ nextTick = 1000 \div config.rateLimitPerSecond
    /\ TransportIdle

\* ---- the backoff delay ---------------------------------------------------
\* attempts for which the delay is computed
MaxAttempt == 12

InitBackoff ==
    /\ ClientReady
    /\ args \in { [j |-> j, k |-> k] : j \in 1 .. MaxAttempt, k \in 1 .. MaxAttempt }
    /\ value = Unset
    /\ gen = Unset
    /\ stats = Unset

\* the delay before the retry of attempt j and of attempt k
ApplyBackoff ==
    /\ value = Unset
    /\ value' = <<[j |-> Backoff(args.j), k |-> Backoff(args.k)]>>
    /\ UNCHANGED <<facade, transport, args, gen, stats>>

SpecBackoff == InitBackoff /\ [][ApplyBackoff]_vars

\* ---- decoding a 2xx response ---------------------------------------------
\* contentType.includes("application/json"), on the content types below
IncludesJson(ct) ==
    ct \in {"application/json", "application/json; charset=utf-8"}

\* truthiness of the `data` field in JavaScript (an absent field reads
\* undefined)
DataTruthy(d) == d \in {"object", "emptyList", "list", "one", "string", "true"}

\* Lines 123-129: what makeRequest returns for a 2xx response: the `data`
\* field, the whole decoded body, or the body's text.
Decode(ct, d) ==
    IF HeaderTruthy(ct) /\ IncludesJson(ct)
    THEN IF DataTruthy(d)
         THEN [what |-> "data", data |-> d]
         ELSE [what |-> "body", data |-> d]
    ELSE [what |-> "text", data |-> d]

\* The content-type header of the response: absent, empty, or its text; the
\* `data` field of a JSON body that is an object: absent, or its value.
InitDecode ==
    /\ ClientReady
    /\ args \in { [contentType |-> ct, data |-> d] :
                    ct \in {NoHeader, "", "application/json",
                            "application/json; charset=utf-8",
                            "text/plain", "text/html"},
                    d \in {"absent", "object", "emptyList", "list", "zero",
                           "one", "emptyString", "string", "false", "true",
                           "null"} }
    /\ value = Unset
    /\ gen = Unset
    /\ stats = Unset

ApplyDecode ==
    /\ value = Unset
    /\ value' = <<Decode(args.contentType, args.data)>>
    /\ UNCHANGED <<facade, transport, args, gen, stats>>

SpecDecode == InitDecode /\ [][ApplyDecode]_vars

\* ---- the headers of a request and their log ------------------------------
\* A headers object is a function from header names to texts.
NoHeaders == [k \in {} |-> ""]

\* mutant: on a key in both, the earlier source wins
Spread_firstWins(a, b) ==
    [k \in DOMAIN a \cup DOMAIN b |-> IF k \in DOMAIN a THEN a[k] ELSE b[k]]

\* { ...a, ...b }
Spread(a, b) ==
    [k \in DOMAIN a \cup DOMAIN b |-> IF k \in DOMAIN b THEN b[k] ELSE a[k]]

\* `Bearer ${this.config.apiKey}`
Bearer(key) == "Bearer " \o key

\* the three headers getHeaders starts from
DefaultHeaders(key) ==
    [k \in {"Content-Type", "Authorization", "User-Agent"} |->
        CASE k = "Content-Type" -> "application/json"
          [] k = "Authorization" -> Bearer(key)
          [] OTHER -> "@blognow/sdk/1.0.0"]

\* getHeaders(customHeaders) with its values: defaults, then
\* this.config.customHeaders, then the headers of the call
RequestHeaders(key, custom, perCall) ==
    Spread(Spread(DefaultHeaders(key), custom), perCall)

\* mutant: nothing is redacted
sanitizeHeaders_asIs(headers) == headers

\* sanitizeHeaders(headers)
sanitizeHeaders(headers) ==
    IF "Authorization" \in DOMAIN headers /\ headers["Authorization"] # ""
    THEN [headers EXCEPT !["Authorization"] = "Bearer [REDACTED]"]
    ELSE headers

\* the headers console.log is given when debug is on: none when it is off
LoggedHeaders(debug, headers) ==
    IF debug THEN <<sanitizeHeaders(headers)>> ELSE <<>>

Credentials == {"key-one", "key-two"}

\* Two clients that differ at most in their credential make the same call.
\* The headers object the caller configured and the one it passes with the
\* call may set Authorization (the call also to ""), Content-Type, X-Custom.
InitHeaders ==
    /\ ClientReady
    /\ args \in { [apiKey |-> k, otherKey |-> o, debug |-> dbg,
                     custom |-> Spread(ca, cx),
                     perCall |-> Spread(Spread(pa, px), pt)] :
                    k \in Credentials, o \in Credentials, dbg \in BOOLEAN,
                    ca \in {NoHeaders, [h \in {"Authorization"} |-> "Custom c-auth"]},
                    cx \in {NoHeaders, [h \in {"X-Custom"} |-> "c-value"]},
                    pa \in {NoHeaders, [h \in {"Authorization"} |-> "Basic p-auth"],
                            [h \in {"Authorization"} |-> ""]},
                    px \in {NoHeaders, [h \in {"X-Custom"} |-> "p-value"]},
                    pt \in {NoHeaders, [h \in {"Content-Type"} |-> "text/plain"]} }
    /\ value = Unset
    /\ gen = Unset
    /\ stats = Unset

\* makeRequest, lines 88-96, in both clients: the headers sent by the
\* first, and what each logs
ApplyHeaders ==
    /\ value = Unset
    /\ value' =
         <<[sent |-> RequestHeaders(args.apiKey, args.custom, args.perCall),
            logged |-> LoggedHeaders(args.debug,
                          RequestHeaders(args.apiKey, args.custom, args.perCall)),
            loggedOther |-> LoggedHeaders(args.debug,
                          RequestHeaders(args.otherKey, args.custom, args.perCall))]>>
    /\ UNCHANGED <<facade, transport, args, gen, stats>>

SpecHeaders == InitHeaders /\ [][ApplyHeaders]_vars

\* ---- the URL of a request ------------------------------------------------
\* A JavaScript value given as a query parameter: a number, a string, a
\* boolean, null, undefined, or a list of strings.
Num(n) == [kind |-> "number", n |-> n, s |-> "", b |-> FALSE, items |-> <<>>]
Str(t) == [kind |-> "string", n |-> 0, s |-> t, b |-> FALSE, items |-> <<>>]
Bool(b) == [kind |-> "boolean", n |-> 0, s |-> "", b |-> b, items |-> <<>>]
Null == [kind |-> "null", n |-> 0, s |-> "", b |-> FALSE, items |-> <<>>]
Undef == [kind |-> "undefined", n |-> 0, s |-> "", b |-> FALSE, items |-> <<>>]
List(items) == [kind |-> "list", n |-> 0, s |-> "", b |-> FALSE, items |-> items]
\* a key the params object does not have
Absent == [kind |-> "absent", n |-> 0, s |-> "", b |-> FALSE, items |-> <<>>]

ParamValues ==
    {Num(0), Num(1), Num(10), Str(""), Str("a"), Bool(FALSE), Bool(TRUE), Null,
     Undef, List(<<>>), List(<<Str("a")>>), List(<<Str("a"), Str("b")>>),
     List(<<Str("b"), Str("a")>>)}

\* String(v) for the scalars above
String(v) ==
    CASE v.kind = "number" ->
           (CASE v.n = 0 -> "0" [] v.n = 1 -> "1" [] v.n = 10 -> "10" [] OTHER -> "NaN")
      [] v.kind = "string" -> v.s
      [] v.kind = "boolean" -> (IF v.b THEN "true" ELSE "false")
      [] v.kind = "null" -> "null"
      [] OTHER -> "undefined"

\* mutant: a falsy value is skipped like null and undefined
Appended_skipsFalsy(key, val) ==
    IF val.kind \in {"undefined", "null"} \/ val = Num(0) \/ val = Str("")
                                          \/ val = Bool(FALSE)
    THEN <<>>
    ELSE IF val.kind = "list"
         THEN [i \in 1 .. Len(val.items) |-> <<key, String(val.items[i])>>]
         ELSE <<<<key, String(val)>>>>

\* the body of the forEach of buildUrl for one entry [key, value]: the
\* pairs it appends to url.searchParams
Appended(key, val) ==
    IF val.kind \in {"undefined", "null"}
    THEN <<>>
    ELSE IF val.kind = "list"
         THEN [i \in 1 .. Len(val.items) |-> <<key, String(val.items[i])>>]
         ELSE <<<<key, String(val)>>>>

\* Object.entries(params).forEach(...)
RECURSIVE SearchParams(_)
SearchParams(entries) ==
    IF entries = <<>> THEN <<>>
    ELSE Appended(Head(entries).key, Head(entries).val) \o SearchParams(Tail(entries))

\* url.searchParams as text
RECURSIVE QueryText(_)
QueryText(pairs) ==
    IF pairs = <<>> THEN ""
    ELSE Head(pairs)[1] \o "=" \o Head(pairs)[2]
         \o (IF Len(pairs) > 1 THEN "&" ELSE "") \o QueryText(Tail(pairs))

\* buildUrl(path, params): url.toString()
buildUrl(path, entries) ==
    IF SearchParams(entries) = <<>>
    THEN path
    ELSE path \o "?" \o QueryText(SearchParams(entries))

\* Object.entries of a params object with the keys page, size, tags, in the
\* order the object has them
Entries(order, vals) ==
    SelectSeq([i \in 1 .. Len(order) |-> [key |-> order[i], val |-> vals[i]]],
              LAMBDA e : e.val.kind # "absent")

InitUrl ==
    /\ ClientReady
    /\ args \in { [order |-> o, vals |-> <<a, b, c>>] :
                    o \in {<<"page", "size", "tags">>, <<"tags", "size", "page">>},
                    a \in ParamValues \cup {Absent},
                    b \in ParamValues \cup {Absent},
                    c \in ParamValues \cup {Absent} }
    /\ value = Unset
    /\ gen = Unset
    /\ stats = Unset

ApplyUrl ==
    /\ value = Unset
    /\ value' =
         <<[pairs |-> SearchParams(Entries(args.order, args.vals)),
            url |-> buildUrl("/api/posts", Entries(args.order, args.vals))]>>
    /\ UNCHANGED <<facade, transport, args, gen, stats>>

SpecUrl == InitUrl /\ [][ApplyUrl]_vars

\* ---- the pagination generators of PostsService ---------------------------
MaxPages == 3          \* the server has up to this many pages
MaxPerPage == 2        \* with up to this many items each
MaxStartPage == 3      \* options.page is at most this

\* items on page q of a server with `pages` pages of `perPage` items
ItemsOn(g, q) == IF q >= 1 /\ q <= g.serverPages THEN g.perPage ELSE 0

\* A generator object (of iterateAllPosts, iteratePublishedPosts or
\* iteratePostsByAuthor; options.page absent, 0 or a page number) and what
\* its consumer has seen of it.  page, cursor,
\* items and pages are the generator's locals (response.items.length and
\* response.pages of the page in hand); requests are the pages asked of
\* the server, yielded the items handed to the consumer, as <<page, index>>.
InitPages ==
    /\ ClientReady
    /\ args = Unset
    /\ value = Unset
    /\ gen \in { [which |-> w, startArg |-> st, serverPages |-> sp, perPage |-> n,
                   pc |-> "created", page |-> 0, cursor |-> 0, items |-> 0,
                   pages |-> 0, requests |-> <<>>, yielded |-> <<>>] :
                  w \in {"all", "published", "byAuthor"},
                  st \in {Undefined} \cup (0 .. MaxStartPage),
                  sp \in 0 .. MaxPages,
                  n \in 0 .. MaxPerPage }
    /\ stats = Unset

\* The end of the loop body and the next turn of the loop: hasMore = page <
\* response.pages; page++; and, while (hasMore), the next get...Posts(...).
AfterPage(g) ==
    IF g.page < g.pages
    THEN [g EXCEPT !.page = @ + 1, !.requests = Append(@, g.page + 1),
                   !.pc = "fetching"]
    ELSE [g EXCEPT !.page = @ + 1, !.pc = "done"]

\* The consumer calls next(): the generator starts, or goes on after the
\* yield it was suspended at.
Pull ==
    /\ gen.pc \in {"created", "yielded"}
    /\ gen' = IF gen.pc = "created"
              THEN [gen EXCEPT !.page = OrDefault(gen.startArg, 1),
                               !.requests = <<OrDefault(gen.startArg, 1)>>,
                               !.pc = "fetching"]
              ELSE IF gen.cursor < gen.items
                   THEN [gen EXCEPT !.cursor = @ + 1,
                                    !.yielded = Append(@, <<gen.page, gen.cursor + 1>>)]
                   ELSE AfterPage(gen)
    /\ UNCHANGED <<facade, transport, args, value, stats>>

\* mutant: the next page is asked for as soon as a page arrives
Respond_prefetch ==
    /\ gen.pc = "fetching"
    /\ gen' = IF ItemsOn(gen, gen.page) > 0
              THEN [gen EXCEPT !.items = ItemsOn(gen, gen.page),
                               !.pages = gen.serverPages,
                               !.cursor = 1,
                               !.yielded = Append(@, <<gen.page, 1>>),
                               !.requests = Append(@, gen.page + 1),
                               !.pc = "yielded"]
              ELSE AfterPage([gen EXCEPT !.items = 0, !.pages = gen.serverPages,
                                         !.cursor = 0])
    /\ UNCHANGED <<facade, transport, args, value, stats>>

\* The page asked for arrives: its first item is yielded, or, when it has
\* none, the loop goes on at once.
Respond ==
    /\ gen.pc = "fetching"
    /\ gen' = IF ItemsOn(gen, gen.page) > 0
              THEN [gen EXCEPT !.items = ItemsOn(gen, gen.page),
                               !.pages = gen.serverPages,
                               !.cursor = 1,
                               !.yielded = Append(@, <<gen.page, 1>>),
                               !.pc = "yielded"]
              ELSE AfterPage([gen EXCEPT !.items = 0, !.pages = gen.serverPages,
                                         !.cursor = 0])
    /\ UNCHANGED <<facade, transport, args, value, stats>>

\* get...Posts rejects: the generator throws and is finished.
PageFails ==
    /\ gen.pc = "fetching"
    /\ gen' = [gen EXCEPT !.pc = "failed"]
    /\ UNCHANGED <<facade, transport, args, value, stats>>

\* The consumer leaves its for-await loop (break): return() finishes the
\* generator at the yield it is suspended at.
Break ==
    /\ gen.pc = "yielded"
    /\ gen' = [gen EXCEPT !.pc = "returned"]
    /\ UNCHANGED <<facade, transport, args, value, stats>>

NextPages == Pull \/ Respond \/ PageFails \/ Break

SpecPages == InitPages /\ [][NextPages]_vars

\* ---- getPostStatistics of PostsService ------------------------------------
MaxTotal == 3          \* a query reports at most this many posts

\* The status filter of the four queries, in the order of the array given to
\* Promise.all: getAllPosts, then getPostsByStatus of published, draft,
\* archived.
StatQueries == <<"all", "published", "draft", "archived">>

\* server: `total` of the server's answer to each query
InitStats ==
    /\ ClientReady
    /\ args = Unset
    /\ value = Unset
    /\ gen = Unset
    /\ stats \in { [server |-> sv, pc |-> "idle", queries |-> <<>>,
                    order |-> <<>>, result |-> NoResult] :
                   sv \in [{"all", "published", "draft", "archived"} -> 0 .. MaxTotal] }

\* mutant: the totals are matched to the queries in the order the responses
\* completed
Destructure_byCompletion(queries, order) ==
    [total |-> queries[order[1]].total, published |-> queries[order[2]].total,
     draft |-> queries[order[3]].total, archived |-> queries[order[4]].total]

\* const [totalResponse, publishedResponse, draftResponse, archivedResponse]
\* = await Promise.all([...]) and the object returned: Promise.all resolves
\* with the values in the order of its array.
Destructure(queries, order) ==
    [total |-> queries[1].total, published |-> queries[2].total,
     draft |-> queries[3].total, archived |-> queries[4].total]

\* getPostStatistics() is called: the four GETs are made, one after the
\* other without awaiting any, and Promise.all awaits them.
GetPostStatistics ==
    /\ stats.pc = "idle"
    /\ stats' = [stats EXCEPT
                   !.pc = "waiting",
                   !.queries = [i \in 1 .. 4 |->
                                  [endpoint |-> "/api/v1/posts/all",
                                   status |-> StatQueries[i],
                                   state |-> "pending", total |-> 0]]]
    /\ UNCHANGED <<facade, transport, args, value, gen>>

\* One of the GETs resolves with the server's answer; when it is the last of
\* four that resolved, Promise.all resolves and the statistics are returned.
QueryResolves(i) ==
    /\ stats.pc \in {"waiting", "failed"}
    /\ stats.queries[i].state = "pending"
    /\ LET qs == [stats.queries EXCEPT
                    ![i].state = "resolved",
                    ![i].total = stats.server[stats.queries[i].status]]
           ord == Append(stats.order, i)
           all == \A j \in 1 .. 4 : qs[j].state = "resolved"
       IN  stats' = [stats EXCEPT
                       !.queries = qs,
                       !.order = ord,
                       !.pc = IF all THEN "done" ELSE @,
                       !.result = IF all THEN Destructure(qs, ord) ELSE @]
    /\ UNCHANGED <<facade, transport, args, value, gen>>

\* One of the GETs rejects: Promise.all rejects with it at once, and
\* getPostStatistics with it; the other GETs go on unobserved.
QueryRejects(i) ==
    /\ stats.pc \in {"waiting", "failed"}
    /\ stats.queries[i].state = "pending"
    /\ stats' = [stats EXCEPT
                   !.queries[i].state = "rejected",
                   !.order = Append(@, i),
                   !.pc = "failed"]
    /\ UNCHANGED <<facade, transport, args, value, gen>>

NextStats ==
    \/ GetPostStatistics
    \/ \E i \in 1 .. 4 : QueryResolves(i)
    \/ \E i \in 1 .. 4 : QueryRejects(i)

SpecStats == InitStats /\ [][NextStats]_vars

\* ---- observations -------------------------------------------------------
Frames(c) == calls[c].frames
IsDone(c) == calls[c].pc = "done"
LastFrame(c) == Frames(c)[Len(Frames(c))]

\* fetch() invocations made for call c
NetCalls(c) ==
    Cardinality({ i \in DOMAIN Frames(c) : Frames(c)[i].startedAt # NoTime })

\* waiters of call c resolved by the ticker
ReleasedFor(c) ==
    Cardinality({ i \in DOMAIN released : released[i].call = c })

IsResponse(f) == f.outcome.type = "response"
IsNetFail(f) == f.outcome.type = "netfail"
\* the attempt of frame f was followed by a sleep and a retry
Retried(f) == f.delay # NoTime

\* "small epsilon" of the timing claims, ms
Epsilon == 100

\* ---- C1 -----------------------------------------------------------------
\* C1: with a non-negative retry count R in this.config, one logical call
\* issues at most R + 1 network calls, whatever its attempts end with.
C1_AtMostRPlusOneCalls ==
    config.retries >= 0 =>
        \A c \in Calls : NetCalls(c) <= config.retries + 1

\* a call that used its whole budget, every attempt but the last retried
C1_Witness ==
    \E c \in Calls :
        /\ IsDone(c)
        /\ NetCalls(c) = config.retries + 1
        /\ NetCalls(c) >= 2
        /\ Retried(Frames(c)[1])

\* ---- C2 -----------------------------------------------------------------
\* C2: a call that returns a value after a retry triggered by a 5xx or 429
\* response returns the payload of the final 2xx response, never a value
\* decoded from an earlier non-2xx response.
C2_ReturnsFinalPayload ==
    \A c \in Calls :
        ( /\ IsDone(c)
          /\ calls[c].result.kind = "value"
          /\ \E i \in DOMAIN Frames(c) : Frames(c)[i].via = "her" )
        => /\ IsResponse(LastFrame(c))
           /\ Ok(LastFrame(c).outcome)
           /\ calls[c].result.from = LastFrame(c).attempt

\* ---- C3 -----------------------------------------------------------------
\* C3: waiters are released in the order in which acquire enqueued them: the
\* released waiters are in arrival order, every waiter still queued arrived
\* after every released one, and the queue itself is in arrival order.
C3_FifoRelease ==
    /\ \A i, j \in DOMAIN released :
         i < j => released[i].seq < released[j].seq
    /\ \A i \in DOMAIN released : \A j \in DOMAIN rateLimitQueue :
         released[i].seq < rateLimitQueue[j].seq
    /\ \A i, j \in DOMAIN rateLimitQueue :
         i < j => rateLimitQueue[i].seq < rateLimitQueue[j].seq

\* waiters of two calls were released one after the other while a third waits
C3_Witness ==
    /\ rateLimitQueue # <<>>
    /\ \E i, j \in DOMAIN released :
         i < j /\ released[i].call # released[j].call

\* ---- C4 -----------------------------------------------------------------
\* C4: a tick releases exactly the head waiter of a non-empty queue and
\* nothing of an empty one, nothing is released between ticks, and the number
\* of waiters released never exceeds the number of ticks fired.
C4_OneWaiterPerTick ==
    /\ [][ /\ ticks' = ticks + 1 =>
                IF rateLimitQueue = <<>>
                THEN released' = released /\ rateLimitQueue' = <<>>
                ELSE /\ released' = Append(released, Head(rateLimitQueue))
                     /\ rateLimitQueue' = Tail(rateLimitQueue)
           /\ ticks' = ticks => released' = released ]_vars
    /\ [](Len(released) <= ticks)

\* a tick went by idle, waiters were released at other ticks and one still
\* waits
C4_Witness ==
    /\ Len(released) >= 1
    /\ ticks > Len(released)
    /\ rateLimitQueue # <<>>

\* ---- C5 -----------------------------------------------------------------
\* C5: every network attempt, retries included, first obtains its own
\* permission: fetch is never invoked more often than waiters were released,
\* for the client and for each call.
C5_AttemptAcquiresPermission ==
    /\ fetchCount <= Len(released)
    /\ \A c \in Calls : NetCalls(c) <= ReleasedFor(c)

\* a retry attempt has called fetch
C5_Witness ==
    \E c \in Calls : NetCalls(c) >= 2 /\ ReleasedFor(c) >= 2

\* ---- C6 -----------------------------------------------------------------
\* C6: a call that gets a 500 and then a 200 on its second attempt succeeds
\* after exactly two network calls, and the second attempt starts no earlier
\* than 1000 ms after the 500 was received.
C6_SucceedsAfter500 ==
    \A c \in Calls :
        /\ ( /\ Len(Frames(c)) >= 2
             /\ ~IsDone(c)
             /\ IsResponse(Frames(c)[1]) /\ Frames(c)[1].outcome.status = 500
             /\ Frames(c)[2].startedAt # NoTime )
           => Frames(c)[2].startedAt >= Frames(c)[1].settledAt + 1000
        /\ ( /\ IsDone(c)
             /\ Len(Frames(c)) = 2
             /\ IsResponse(Frames(c)[1]) /\ Frames(c)[1].outcome.status = 500
             /\ IsResponse(Frames(c)[2]) /\ Frames(c)[2].outcome.status = 200 )
           => /\ calls[c].result.kind = "value"
              /\ NetCalls(c) = 2

C8_RetryOn429 ==
    \A c \in Calls :
        /\ \A i \in DOMAIN Frames(c) :
             LET f == Frames(c)[i]
             IN (IsResponse(f) /\ f.outcome.status = 429) =>
                  /\ Retried(f) <=> ( /\ f.outcome.retryAfter # NoHeader
                                      /\ f.attempt <= config.retries )
                  /\ Retried(f) => f.delay = ParseInt(f.outcome.retryAfter) * 1000
                  /\ ~Retried(f) => /\ i = Len(Frames(c))
                                    /\ IsDone(c)
                                    /\ calls[c].result.name = "RateLimitError"
        /\ ( /\ IsDone(c)
             /\ Len(Frames(c)) = 2
             /\ IsResponse(Frames(c)[1])
             /\ Frames(c)[1].outcome.status = 429
             /\ Frames(c)[1].outcome.retryAfter = "0"
             /\ IsResponse(Frames(c)[2]) /\ Frames(c)[2].outcome.status = 200 )
           => /\ calls[c].result.kind = "value"
              /\ NetCalls(c) = 2

\* ---- C9 -----------------------------------------------------------------
\* C9: an attempt aborted by the timeout timer is the last attempt of its
\* call: the call has failed with Timeout and no attempt follows, whatever
\* the retry count and however many attempts remain.
C9_TimeoutIsTerminal ==
    \A c \in Calls : \A i \in DOMAIN Frames(c) :
        Frames(c)[i].outcome.type = "abort" =>
            /\ i = Len(Frames(c))
            /\ IsDone(c)
            /\ calls[c].result.kind = "error"
            /\ calls[c].result.name = "TimeoutError"

\* a retry attempt timed out while attempts remained
C9_Witness ==
    \E c \in Calls :
        /\ IsDone(c)
        /\ Len(Frames(c)) >= 2
        /\ LastFrame(c).outcome.type = "abort"
        /\ LastFrame(c).attempt <= config.retries
        /\ calls[c].result.name = "TimeoutError"

\* ---- C10 ----------------------------------------------------------------
\* C10 as stated: a call that never receives a response fails with Timeout
\* at most timeout + epsilon ms after the call was issued.
C10_TimeoutWithinTimeoutOfIssue ==
    \A c \in Calls :
        ( /\ IsDone(c)
          /\ calls[c].result.name = "TimeoutError"
          /\ \A i \in DOMAIN Frames(c) : ~IsResponse(Frames(c)[i]) )
        => calls[c].elapsed <= config.timeout + Epsilon

\* C10 amended: a Timeout failure is reported at most timeout + epsilon ms
\* after the attempt that timed out called fetch, that is after that attempt
\* obtained its rate-limiter permission.
C10_TimeoutWithinTimeoutOfAttempt ==
    \A c \in Calls :
        (IsDone(c) /\ calls[c].result.name = "TimeoutError")
        => calls[c].attemptElapsed <= config.timeout + Epsilon

\* a call that got no response timed out later than timeout + epsilon after
\* its issue
C10_Witness ==
    \E c \in Calls :
        /\ IsDone(c)
        /\ calls[c].result.name = "TimeoutError"
        /\ \A i \in DOMAIN Frames(c) : ~IsResponse(Frames(c)[i])
        /\ calls[c].elapsed > config.timeout + Epsilon

\* ---- C11 ----------------------------------------------------------------
\* C11: every failure that reaches the caller of a request method is one of
\* the typed kinds, for any transport failure and any response body.
C11_OnlyTypedFailures ==
    \A c \in Calls :
        (IsDone(c) /\ calls[c].result.kind = "error")
        => calls[c].result.name \in TypedNames

\* ---- C12 ----------------------------------------------------------------
\* a response that is not 2xx, below 500 and not 429
ClientError(o) ==
    o.type = "response" /\ ~Ok(o) /\ o.status < 500 /\ o.status # 429

\* C12: an attempt answered by a non-2xx status below 500 other than 429 is
\* never retried: it is the call's last attempt, the call fails at once with
\* the failure the classifier gives for that status, and when it is the first
\* attempt the call has made exactly one network call.
C12_ClientErrorNotRetried ==
    \A c \in Calls : \A i \in DOMAIN Frames(c) :
        ClientError(Frames(c)[i].outcome)
        => /\ ~Retried(Frames(c)[i])
           /\ i = Len(Frames(c))
           /\ IsDone(c)
           /\ calls[c].result =
                createErrorFromResponse(Frames(c)[i].outcome.status,
                                        ErrorData(Frames(c)[i].outcome),
                                        Frames(c)[i].attempt)
           /\ (i = 1 => NetCalls(c) = 1)

\* a call ended by a 401 on its first attempt, as APIKeyError
C12_Witness ==
    \E c \in Calls :
        /\ IsDone(c)
        /\ Len(Frames(c)) = 1
        /\ Frames(c)[1].outcome.status = 401
        /\ calls[c].result.name = "APIKeyError"
        /\ NetCalls(c) = 1

\* ---- C13 ----------------------------------------------------------------
\* the kind the classifier is to give for a status
KindOf(status) ==
    CASE status = 401 -> "APIKeyError"
      [] status = 404 -> "NotFoundError"
      [] status = 422 -> "ValidationError"
      [] status = 429 -> "RateLimitError"
      [] status \in {500, 502, 503, 504} -> "ServerError"
      [] OTHER -> "BlogNowError"

C14_CarriesRetryAfterHeader ==
    \A c \in Calls :
        ( /\ IsDone(c)
          /\ calls[c].result.name = "RateLimitError"
          /\ calls[c].result.from = LastFrame(c).attempt
          /\ LastFrame(c).outcome.status = 429
          /\ HeaderTruthy(LastFrame(c).outcome.retryAfter) )
        => calls[c].result.retryAfter = ParseInt(LastFrame(c).outcome.retryAfter)

\* ---- C15 ----------------------------------------------------------------
\* a response with a status in 500..599
ServerFault(o) ==
    o.type = "response" /\ o.status >= 500 /\ o.status <= 599

\* C15: an attempt answered by any 5xx status is retried while attempts
\* remain, and a call whose last attempt was answered by a 5xx status with
\* no attempt left fails with ServerError carrying that status.
C15_Every5xxIsServerError ==
    \A c \in Calls :
        /\ \A i \in DOMAIN Frames(c) :
             (ServerFault(Frames(c)[i].outcome) /\ AttemptsRemain(Frames(c)[i].attempt))
             => Retried(Frames(c)[i])
        /\ ( /\ IsDone(c)
             /\ ServerFault(LastFrame(c).outcome)
             /\ ~AttemptsRemain(LastFrame(c).attempt) )
           => /\ calls[c].result.name = "ServerError"
              /\ calls[c].result.status = LastFrame(c).outcome.status

\* ---- C16 ----------------------------------------------------------------
\* a configuration the constructor is to reject
InvalidConfig(cfg) ==
    \/ Trim(cfg.apiKey) = ""
    \/ cfg.timeout # Undefined /\ cfg.timeout <= 0
    \/ cfg.retries # Undefined /\ cfg.retries < 0
    \/ cfg.rateLimitPerSecond # Undefined /\ cfg.rateLimitPerSecond <= 0

\* C16: constructing a client with an empty credential, a timeout that is
\* zero or negative, a negative retry count or a rate that is zero or
\* negative throws ConfigurationError, and no client (no ticker) results.
C16_InvalidConfigRejected ==
    [][ (client = "none" /\ client' # "none" /\ InvalidConfig(given))
        => /\ client' = "failed"
           /\ thrown'.name = "ConfigurationError"
           /\ ~timerOn' ]_vars

\* ---- C17 ----------------------------------------------------------------
\* C17: a valid value given in the configuration is the value the client
\* holds; a client constructed with retries = 0 holds retry count 0 and
\* makes exactly one network call for a call whose first attempt gets a 5xx
\* response or a connectivity failure.
C17_ExplicitValuesKept ==
    /\ (given.retries # Undefined /\ given.retries >= 0)
       => config.retries = given.retries
    /\ (given.timeout # Undefined /\ given.timeout > 0)
       => config.timeout = given.timeout
    /\ (given.rateLimitPerSecond # Undefined /\ given.rateLimitPerSecond > 0)
       => config.rateLimitPerSecond = given.rateLimitPerSecond
    /\ \A c \in Calls :
         ( /\ given.retries = 0
           /\ IsDone(c)
           /\ \/ ServerFault(Frames(c)[1].outcome)
              \/ IsNetFail(Frames(c)[1]) )
         => NetCalls(c) = 1

\* ---- C18 ----------------------------------------------------------------
\* C18: once the client is constructed, no step changes its configuration
\* or the headers its requests are sent with, whatever the caller does with
\* the object it passed or with the object getConfig() returned; and the
\* object getConfig() returned is never changed.
C18_ConfigNeverChanges ==
    [][ /\ client = "constructed"
           => /\ config' = config
              /\ getHeaders' = getHeaders
        /\ snapshot # NoSnapshot
           => /\ snapshot' = snapshot
              /\ heap'[snapshot.customHeaders] = heap[snapshot.customHeaders]
      ]_vars

\* ---- C19 ----------------------------------------------------------------
\* C19: from any state the client reaches, destroy() leaves the ticker
\* stopped and the queue empty, and destroy() run again on that result gives
\* the same result; a step that stops the ticker empties the queue, and no
\* step starts the ticker again.
C19_DestroyIdempotent ==
    /\ [](LET once == destroy(timerOn, rateLimitQueue)
              twice == destroy(once.timerOn, once.rateLimitQueue)
          IN /\ once.timerOn = FALSE
             /\ once.rateLimitQueue = <<>>
             /\ twice = once)
    /\ [][ /\ (timerOn /\ ~timerOn') => rateLimitQueue' = <<>>
           /\ ~timerOn => ~timerOn' ]_vars

\* the ticker ran, released a waiter, and was then stopped by destroy()
C19_Witness ==
    /\ ~timerOn
    /\ rateLimitQueue = <<>>
    /\ ticks >= 1
    /\ Len(released) >= 1

\* ---- C20 ----------------------------------------------------------------
\* a call that waits for permission and whose waiter is no longer queued
Abandoned(c) ==
    /\ calls[c].pc = "waiting"
    /\ \A i \in DOMAIN rateLimitQueue : rateLimitQueue[i].call # c

\* C20: the step of destroy() that empties a queue of waiters releases none
\* of them and starts no network call, and a call whose waiter was discarded
\* stays as it is for ever: it is never released, never fetches, never
\* completes.
C20_DiscardedWaitersNeverRun ==
    [][ /\ (~timerOn' /\ rateLimitQueue # <<>> /\ rateLimitQueue' = <<>>)
           => /\ calls' = calls
              /\ released' = released
              /\ fetchCount' = fetchCount
        /\ \A c \in Calls :
             Abandoned(c) => /\ Abandoned(c)'
                             /\ calls'[c] = calls[c]
      ]_vars

\* a call still waiting, its waiter discarded, after the tick that would
\* have released it and after another call has completed
C20_Witness ==
    \E c \in Calls : \E d \in Calls :
        /\ Abandoned(c)
        /\ ~timerOn
        /\ IsDone(d)
        /\ now > nextTick

\* ---- C21 ----------------------------------------------------------------
\* C21: with a client that is never destroyed, a ticker that keeps firing
\* and fetches that all end, every call that waits for permission is
\* eventually granted it, and every call issued eventually completes with a
\* payload or a typed failure (as far as the exploration goes).
C21_EveryCallCompletes ==
    /\ \A c \in Calls :
         /\ (calls[c].pc = "waiting") ~> (calls[c].pc # "waiting" \/ OutOfBounds)
         /\ (calls[c].pc # "idle") ~> (IsDone(c) \/ OutOfBounds)
    /\ [](\A c \in Calls :
            IsDone(c) => \/ calls[c].result.kind = "value"
                         \/ calls[c].result.name \in TypedNames)

\* ---- C22 ----------------------------------------------------------------
\* the delays of the claim: 1000, 2000, 4000, 8000, then 10000
DelayTable(k) ==
    CASE k = 1 -> 1000
      [] k = 2 -> 2000
      [] k = 3 -> 4000
      [] k = 4 -> 8000
      [] OTHER -> 10000

\* C22: the backoff delay of attempt k >= 1 is 1000, 2000, 4000, 8000 and
\* 10000 from k = 5 on; it never exceeds 10000 and is non-decreasing in k.
C22_BackoffDelays ==
    value # Unset
    => /\ value[1].k = DelayTable(args.k)
       /\ value[1].j = DelayTable(args.j)
       /\ value[1].k <= 10000
       /\ (args.j <= args.k => value[1].j <= value[1].k)

\* the delays of attempts 4 and 5: 8000, then the cap
C22_Witness ==
    /\ value # Unset
    /\ args.j = 4 /\ args.k = 5
    /\ value[1].j = 8000 /\ value[1].k = 10000

\* ---- C23 ----------------------------------------------------------------
\* C23: on a 2xx response with a JSON content type the call returns the
\* `data` field whenever the body has one, whatever its value, and the whole
\* body only when it has none; with another content type it returns the
\* body's text.
C23_UnwrapsDataWhenPresent ==
    value # Unset
    => IF IncludesJson(args.contentType)
       THEN IF args.data # "absent"
            THEN value[1] = [what |-> "data", data |-> args.data]
            ELSE value[1].what = "body"
       ELSE value[1].what = "text"

\* ---- C24 ----------------------------------------------------------------
\* C24: the headers sent are those of the defaults, of the configuration
\* and of the call together; a key has the value of the latest source that
\* has it, so a key in one source only is sent unchanged.
C24_LaterSourceWins ==
    value # Unset
    => LET sent == value[1].sent
           defaults == DefaultHeaders(args.apiKey)
       IN /\ DOMAIN sent = DOMAIN defaults \cup DOMAIN args.custom
                                            \cup DOMAIN args.perCall
          /\ defaults["Authorization"] = Bearer(args.apiKey)
          /\ \A k \in DOMAIN sent :
               sent[k] = IF k \in DOMAIN args.perCall THEN args.perCall[k]
                         ELSE IF k \in DOMAIN args.custom THEN args.custom[k]
                         ELSE defaults[k]

\* Authorization is in all three sources and sent as the call gave it;
\* User-Agent is in the defaults only
C24_Witness ==
    /\ value # Unset
    /\ "Authorization" \in DOMAIN args.custom
    /\ "Authorization" \in DOMAIN args.perCall
    /\ "X-Custom" \in DOMAIN args.custom
    /\ "X-Custom" \notin DOMAIN args.perCall
    /\ value[1].sent["Authorization"] = "Basic p-auth"
    /\ value[1].sent["X-Custom"] = "c-value"
    /\ value[1].sent["User-Agent"] = "@blognow/sdk/1.0.0"

\* ---- C25 ----------------------------------------------------------------
\* C25: with debug on, no logged header has the credential as its value,
\* and two clients that differ only in their credential log the same
\* headers, whatever the custom headers and the headers of the call.
C25_CredentialNeverLogged ==
    (value # Unset /\ args.debug)
    => /\ Len(value[1].logged) = 1
       /\ value[1].logged = value[1].loggedOther
       /\ \A k \in DOMAIN value[1].logged[1] :
            value[1].logged[1][k] # Bearer(args.apiKey)

\* two credentials, the credential sent in Authorization and redacted in
\* the log
C25_Witness ==
    /\ value # Unset
    /\ args.debug
    /\ args.apiKey # args.otherKey
    /\ value[1].sent["Authorization"] = Bearer(args.apiKey)
    /\ value[1].logged[1]["Authorization"] = "Bearer [REDACTED]"

\* ---- C26 ----------------------------------------------------------------
\* position in the query of the first pair with key k (0: none)
FirstAt(pairs, k) ==
    IF \E i \in DOMAIN pairs : pairs[i][1] = k
    THEN CHOOSE i \in DOMAIN pairs :
            pairs[i][1] = k /\ \A j \in 1 .. (i - 1) : pairs[j][1] # k
    ELSE 0

\* C26: a list-valued parameter is in the query once per element, in list
\* order, under its key; a scalar once, also when it is 0, false or "";
\* null and undefined not at all; keys come in the order of the mapping.
C26_QueryString ==
    value # Unset
    => LET pairs == value[1].pairs
       IN /\ \A i \in 1 .. 3 :
               LET k == args.order[i]
                   v == args.vals[i]
                   got == SelectSeq(pairs, LAMBDA q : q[1] = k)
               IN CASE v.kind \in {"absent", "null", "undefined"} -> got = <<>>
                    [] v.kind = "list" ->
                         /\ Len(got) = Len(v.items)
                         /\ \A n \in DOMAIN got : got[n][2] = v.items[n].s
                    [] v.kind = "number" ->
                         got = <<<<k, IF v.n = 0 THEN "0"
                                      ELSE IF v.n = 1 THEN "1" ELSE "10">>>>
                    [] v.kind = "boolean" ->
                         got = <<<<k, IF v.b THEN "true" ELSE "false">>>>
                    [] OTHER -> got = <<<<k, v.s>>>>
          /\ \A i \in 1 .. 3 : \A j \in 1 .. 3 :
               ( /\ i < j
                 /\ FirstAt(pairs, args.order[i]) # 0
                 /\ FirstAt(pairs, args.order[j]) # 0 )
               => \A m \in DOMAIN pairs : \A n \in DOMAIN pairs :
                    (pairs[m][1] = args.order[i] /\ pairs[n][1] = args.order[j])
                    => m < n

\* page=1&size=10 with a list of two tags
C26_Witness ==
    /\ value # Unset
    /\ args.order = <<"page", "size", "tags">>
    /\ args.vals = <<Num(1), Num(10), List(<<Str("a"), Str("b")>>)>>
    /\ value[1].url = "/api/posts?page=1&size=10&tags=a&tags=b"

\* ---- C27 ----------------------------------------------------------------
\* the items of the pages qs of the server of g, page by page, in order
RECURSIVE ItemsOfPages(_, _)
ItemsOfPages(g, qs) ==
    IF qs = <<>> THEN <<>>
    ELSE [i \in 1 .. ItemsOn(g, Head(qs)) |-> <<Head(qs), i>>]
         \o ItemsOfPages(g, Tail(qs))

\* C27: a generator started at page p, 1 when options.page is absent, asks
\* for the pages p, p + 1, ... in this order, each once, and for at least
\* one page once it runs; what it has yielded are the items of the pages it
\* got, in order, and all of them when it is done; it is done after the
\* first page whose index is at least the page count the server reports,
\* and it asks for no page beyond that one.
C27_PagesFromGivenStart ==
    LET start == IF gen.startArg = Undefined THEN 1 ELSE gen.startArg
    IN  /\ \A i \in DOMAIN gen.requests : gen.requests[i] = start + i - 1
        /\ gen.pc # "created" => Len(gen.requests) >= 1
        /\ Len(gen.yielded) <= Len(ItemsOfPages(gen, gen.requests))
        /\ gen.yielded = SubSeq(ItemsOfPages(gen, gen.requests), 1, Len(gen.yielded))
        /\ gen.pc = "done"
           => /\ gen.yielded = ItemsOfPages(gen, gen.requests)
              /\ gen.requests[Len(gen.requests)] >= gen.serverPages
              /\ \A i \in 1 .. (Len(gen.requests) - 1) :
                   gen.requests[i] < gen.serverPages
        /\ \A i \in DOMAIN gen.requests :
             gen.requests[i] <= start \/ gen.requests[i] <= gen.serverPages

\* ---- C28 ----------------------------------------------------------------
\* C28: a call that has failed after at least one retry has failed with one
\* typed failure, which is the failure that classifies the outcome of its
\* last attempt (a response that is not 2xx, a connectivity failure or a
\* timeout: the classifier's failure for the response, NetworkError,
\* TimeoutError); outcomes of earlier attempts are not surfaced.
C28_FailureOfLastAttempt ==
    \A c \in Calls :
        ( /\ IsDone(c)
          /\ calls[c].result.kind = "error"
          /\ \E i \in DOMAIN Frames(c) : Retried(Frames(c)[i]) )
        => /\ calls[c].result.name \in TypedNames
           /\ ~(IsResponse(LastFrame(c)) /\ Ok(LastFrame(c).outcome))
           /\ LET f == LastFrame(c)
              IN  calls[c].result =
                    CASE IsResponse(f) ->
                           createErrorFromResponse(f.outcome.status,
                                                   ErrorData(f.outcome), f.attempt)
                      [] IsNetFail(f) ->
                           NetworkError(f.attempt, FetchTypeError(f.attempt))
                      [] OTHER -> TimeoutError(f.attempt)

\* ---- C29 ----------------------------------------------------------------
\* C29: a page is asked for only when every item of the pages asked for
\* before it has been handed to the consumer, and a generator its consumer
\* has left (break) asks for nothing more.
C29_LazyPages ==
    [][ /\ Len(gen'.requests) > Len(gen.requests)
           => /\ gen.yielded = ItemsOfPages(gen, gen.requests)
              /\ gen.pc # "returned"
        /\ gen.pc = "returned" => gen' = gen ]_vars

\* the consumer left after the first item of page 1 of 2: page 2 was never
\* asked for
C29_Witness ==
    /\ gen.pc = "returned"
    /\ gen.serverPages >= 2
    /\ gen.requests = <<1>>
    /\ gen.yielded = <<<<1, 1>>>>

\* ---- C30 ----------------------------------------------------------------
\* C30: getPostStatistics makes exactly four GETs, for all posts and for the
\* published, draft and archived ones, all of them before any has completed;
\* the statistics it returns hold, for each of the four, the total the
\* server reported for that query, in whatever order the four completed.
C30_TotalsMatchQueries ==
    /\ stats.pc # "idle"
       => /\ Len(stats.queries) = 4
          /\ \A i \in 1 .. 4 :
               /\ stats.queries[i].endpoint = "/api/v1/posts/all"
               /\ stats.queries[i].status = StatQueries[i]
    /\ stats.pc = "idle" => stats.order = <<>>
    /\ stats.pc = "done"
       => /\ stats.result.total = stats.server["all"]
          /\ stats.result.published = stats.server["published"]
          /\ stats.result.draft = stats.server["draft"]
          /\ stats.result.archived = stats.server["archived"]

\* four different totals whose responses completed in the reverse of the
\* order of the queries
C30_Witness ==
    /\ stats.pc = "done"
    /\ stats.order = <<4, 3, 2, 1>>
    /\ stats.server = [all |-> 3, published |-> 2, draft |-> 1, archived |-> 0]
    /\ stats.result = [total |-> 3, published |-> 2, draft |-> 1, archived |-> 0]

\* ---- C31 ----------------------------------------------------------------
\* C31: once destroy() has stopped the ticker, no step starts a network
\* call or releases a waiter, and a call that waits for permission, be it
\* one issued after destroy() or a retry whose sleep ended after it, stays
\* as it is: it neither returns a value nor fails.
C31_NoCallAfterDestroy ==
    [][ ~timerOn
        => /\ fetchCount' = fetchCount
           /\ released' = released
           /\ \A c \in Calls :
                /\ calls[c].pc # "fetching" => calls'[c].pc # "fetching"
                /\ calls[c].pc = "waiting" => calls'[c] = calls[c]
      ]_vars

\* a retry whose sleep ended after destroy(): its waiter is queued on the
\* stopped ticker; another call has been issued
C31_Witness ==
    \E c \in Calls : \E d \in Calls \ {c} :
        /\ ~timerOn
        /\ calls[c].pc = "waiting"
        /\ Len(Frames(c)) >= 2
        /\ \E i \in DOMAIN rateLimitQueue : rateLimitQueue[i].call = c
        /\ calls[d].pc # "idle"

\* ---- C32 ----------------------------------------------------------------
\* C32: when the sleep before a retry ends, the waiter of the retry is put
\* behind every waiter then queued, which all stay in their places, and a
\* waiter is released only from the head of the queue: the retry is released
\* after all of them, whichever calls they belong to.
C32_RetryQueuesAtTail ==
    [][ /\ \A c \in Calls :
             (calls[c].pc = "sleeping" /\ calls'[c].pc = "waiting")
             => /\ Len(rateLimitQueue') = Len(rateLimitQueue) + 1
                /\ SubSeq(rateLimitQueue', 1, Len(rateLimitQueue)) = rateLimitQueue
                /\ rateLimitQueue'[Len(rateLimitQueue')].call = c
        /\ released' # released
           => /\ rateLimitQueue # <<>>
              /\ released' = Append(released, Head(rateLimitQueue))
      ]_vars

\* the waiter of a retry is queued behind the waiter of another call
C32_Witness ==
    \E i, j \in DOMAIN rateLimitQueue :
        /\ i < j
        /\ rateLimitQueue[i].call # rateLimitQueue[j].call
        /\ Len(Frames(rateLimitQueue[j].call)) >= 2
        /\ calls[rateLimitQueue[j].call].pc = "waiting"

\* ---- C33 ----------------------------------------------------------------
\* C33: the attempts of a call are numbered 1, 2, ... by the call itself;
\* whether an attempt is retried depends on its own number and outcome only;
\* a call whose last attempt ended in a connectivity failure has made all
\* of its retries + 1 attempts, whatever other calls did; and the result of
\* a completed call is what its own attempts' outcomes give.
C33_CallsCountAlone ==
    \A c \in Calls :
        /\ \A i \in DOMAIN Frames(c) :
             /\ Frames(c)[i].attempt = i
             /\ Retried(Frames(c)[i])
                => AfterFetch(Frames(c)[i].outcome, i).do = "retry"
        /\ (IsDone(c) /\ IsNetFail(LastFrame(c)) /\ config.retries >= 0)
           => NetCalls(c) = config.retries + 1
        /\ IsDone(c)
           => \E mode \in RereadModes :
                LET u == Settled(Frames(c), Len(Frames(c)),
                                 LastFrame(c).outcome, mode)
                IN  u.do = "done" /\ u.res = calls[c].result

\* a call used all its attempts on connectivity failures while another call
\* of the client failed too
C33_Witness ==
    \E c \in Calls : \E d \in Calls \ {c} :
        /\ IsDone(c) /\ IsDone(d)
        /\ calls[c].result.name = "NetworkError"
        /\ NetCalls(c) = config.retries + 1
        /\ NetCalls(c) >= 2
        /\ calls[d].result.kind = "error"

\* ---- C34 ----------------------------------------------------------------
\* C34: the step that issues a call starts no network call: the call waits
\* for permission, its first attempt not started; and an attempt starts
\* only in a step of the ticker, for a call that was waiting.
C34_FirstAttemptWaitsForTick ==
    [][ \A c \in Calls :
          /\ (calls[c].pc = "idle" /\ calls'[c].pc # "idle")
             => /\ calls'[c].pc = "waiting"
                /\ calls'[c].frames[1].startedAt = NoTime
                /\ fetchCount' = fetchCount
          /\ (calls[c].pc # "fetching" /\ calls'[c].pc = "fetching")
             => /\ calls[c].pc = "waiting"
                /\ ticks' = ticks + 1
      ]_vars

\* the only call issued on an idle client was the only waiter; its first
\* attempt started at the first tick, later than its issue
C34_Witness ==
    \E c \in Calls :
        /\ calls[c].pc = "fetching"
        /\ Len(Frames(c)) = 1
        /\ Frames(c)[1].startedAt > calls[c].issuedAt
        /\ \A d \in Calls \ {c} : calls[d].pc = "idle"
        /\ ticks = 1
        /\ Len(released) = 1

\* ---- C35 ----------------------------------------------------------------
\* C35: after a construction that failed, with ConfigurationError, no
\* ticker runs, no waiter is queued and no network call was made; a
\* ConfigurationError is thrown by a failed construction only, and no call
\* ends with one.
C35_ConfigurationErrorOnlyAtConstruction ==
    /\ client = "failed"
       => /\ thrown.name = "ConfigurationError"
          /\ ~timerOn
          /\ rateLimitQueue = <<>>
          /\ fetchCount = 0
          /\ \A c \in Calls : calls[c].pc = "idle"
    /\ thrown.name = "ConfigurationError" => client = "failed"
    /\ \A c \in Calls : calls[c].result.name # "ConfigurationError"

\* a construction rejected for its retry count
C35_Witness ==
    /\ client = "failed"
    /\ thrown = ConfigurationError("Retries must be a non-negative number")
    /\ ~timerOn
    /\ fetchCount = 0

\* ---- C36 ----------------------------------------------------------------
\* C36: a call has a timeout timer pending exactly while the network call
\* of one of its attempts is in flight: the timer was armed when that
\* attempt, released by the ticker, started its network call, and is due
\* config.timeout later; a call that waits for permission, sleeps before a
\* retry or has completed has no timer pending.
C36_TimerOnlyWhileFetching ==
    \A c \in Calls :
        /\ calls[c].pc = "fetching"
           => /\ LastFrame(c).startedAt # NoTime
              /\ calls[c].timeoutAt = LastFrame(c).startedAt + config.timeout
              /\ ReleasedFor(c) = Len(Frames(c))
        /\ calls[c].pc # "fetching" => calls[c].timeoutAt = NoTime

\* a call completed after a retry, no timer left, while the timer of
\* another call's attempt is pending
C36_Witness ==
    \E c \in Calls : \E d \in Calls \ {c} :
        /\ IsDone(c)
        /\ NetCalls(c) >= 2
        /\ calls[c].timeoutAt = NoTime
        /\ calls[d].pc = "fetching"
        /\ calls[d].timeoutAt >= now

====
